---- MODULE Spec2Model ----
(***************************************************************************)
(* ghira: one run of main() (src/main.go:479-566) and its three producer   *)
(* goroutines, the tracker they talk to, and the throttling HTTP client    *)
(* of the tracker (src/unnamed/part_000).                                  *)
(*                                                                         *)
(* Strings that the code takes apart or puts together (ticket summaries,   *)
(* issue titles, the retry-after header) are sequences of one-character    *)
(* strings; strings that are only compared (handles, status names) are     *)
(* TLA+ strings.  A tracker key OSASINFRA-<i> is the number i.             *)
(***************************************************************************)
EXTENDS Integers, Sequences, FiniteSets, TLC

VARIABLES
    \* ---- the world around the process
    env,           \* the environment variables init() reads, "" when unset
    roster,        \* team.Load's result: the people, with their TeamMember flag
    pages,         \* the source repository's chain of pages
    tickets,       \* the tracker's tickets of the queried project, in search order
    \* ---- the process
    run,           \* which run of the program this is
    exit,          \* "running", or how the process ended
    \* fetchGitHubIssues' goroutine
    fpc, url, fbatch, fclosed, requests, issued,
    \* AssignedToTheTeam's goroutine
    apc, acur, oclosed, emitted,
    \* SearchIssues' goroutine
    spc, last, total, sbatch, sresp, sclosed, found,
    \* main
    mpc, alreadyKnown, mcur, possibleTransitions, pending, journal,
    \* ---- throttlingHttpClient.Do, on its own
    dpc, dres, derr, dwait, dclock, dhist

fetchVars == <<fpc, url, fbatch, fclosed, requests, issued>>
filtVars  == <<apc, acur, oclosed, emitted>>
srchVars  == <<spc, last, total, sbatch, sresp, sclosed, found>>
mainVars  == <<mpc, alreadyKnown, mcur, possibleTransitions, pending, journal>>
doVars    == <<dpc, dres, derr, dwait, dclock, dhist>>
vars == <<env, roster, pages, tickets, run, exit, fetchVars, filtVars, srchVars, mainVars, doVars>>

\* ------------------------------------------------------------------ bounds
MinNum      == 9    \* source item numbers are MinNum..MaxNum: one and two digits
MaxNum      == 10
MaxItems    == 2    \* items of all pages of the source repository together
MaxPages    == 2    \* pages the source repository serves
MaxTickets  == 2    \* tickets in the tracker before the first run
PageCap     == 2    \* issues the tracker puts in one page of search results
MaxAttempts == 3    \* transport calls followed in one Do
MaxHdrLen   == 2    \* characters of a retry-after header

Numbers == MinNum..MaxNum

Min(a, b) == IF a < b THEN a ELSE b

\* ------------------------------------------------------------------ strings
Digits == <<"0", "1", "2", "3", "4", "5", "6", "7", "8", "9">>

IsDigit(c) == \E d \in 1..10 : Digits[d] = c

DigitVal(c) == (CHOOSE d \in 1..10 : Digits[d] = c) - 1

RECURSIVE Itoa(_)
\* strconv.Itoa, for the numbers a source item can have (n >= 0)
Itoa(n) == IF n < 10 THEN <<Digits[n + 1]>>
           ELSE Itoa(n \div 10) \o <<Digits[(n % 10) + 1]>>

RECURSIVE DigitsValue(_)
DigitsValue(s) == IF s = <<>> THEN 0
                  ELSE 10 * DigitsValue(SubSeq(s, 1, Len(s) - 1)) + DigitVal(s[Len(s)])

\* strconv.Atoi: <<n, err>>; a string that is no decimal number gives <<0, TRUE>>.
\* (Numbers beyond the int range, which give a range error, are outside MaxHdrLen.)
Atoi(s) ==
    IF s # <<>> /\ \A i \in 1..Len(s) : IsDigit(s[i])
    THEN <<DigitsValue(s), FALSE>>
    ELSE IF Len(s) > 1 /\ s[1] \in {"+", "-"} /\ \A i \in 2..Len(s) : IsDigit(s[i])
    THEN <<(IF s[1] = "-" THEN -1 ELSE 1) * DigitsValue(Tail(s)), FALSE>>
    ELSE <<0, TRUE>>

TagPrefix == <<"G", "H", "-", "o", "r", "c", "-">>
TagSuffix == <<":", " ">>

\* the run of digits of s that starts at position i
RECURSIVE DigitRun(_, _)
DigitRun(s, i) == IF i <= Len(s) /\ IsDigit(s[i]) THEN <<s[i]>> \o DigitRun(s, i + 1)
                  ELSE <<>>

\* does `GH-orc-(\d+): ` match s at position i
TagAt(s, i) ==
    LET d == DigitRun(s, i + Len(TagPrefix))
        e == i + Len(TagPrefix) + Len(d)
    IN  /\ i + Len(TagPrefix) - 1 <= Len(s)
        /\ SubSeq(s, i, i + Len(TagPrefix) - 1) = TagPrefix
        /\ d # <<>>
        /\ e + 1 <= Len(s)
        /\ SubSeq(s, e, e + 1) = TagSuffix

\* FindIssueNumber taking the rightmost match
FindIssueNumberLast(s) ==
    LET at == {i \in 1..Len(s) : TagAt(s, i)}
    IN  IF at = {} THEN <<>>
        ELSE LET i == CHOOSE j \in at : \A k \in at : j >= k
                 d == DigitRun(s, i + Len(TagPrefix))
             IN  <<TagPrefix \o d \o TagSuffix, d>>

\* ghIssueNumberRegex.FindStringSubmatch(s): the leftmost match and its group,
\* or the empty slice
FindIssueNumber(s) ==
    LET at == {i \in 1..Len(s) : TagAt(s, i)}
    IN  IF at = {} THEN <<>>
        ELSE LET i == CHOOSE j \in at : \A k \in at : j <= k
                 d == DigitRun(s, i + Len(TagPrefix))
             IN  <<TagPrefix \o d \o TagSuffix, d>>

\* Summary with the space after the colon forgotten
SummaryNoSpace(issue) == TagPrefix \o Itoa(issue.Number) \o <<":">> \o issue.Title

\* createJiraIssue's Summary field
Summary(issue) == TagPrefix \o Itoa(issue.Number) \o TagSuffix \o issue.Title

\* ------------------------------------------------------------------ the roster
\* main's teamMembers: the people whose TeamMember flag is set
TeamMembers(people) == SelectSeq(people, LAMBDA p : p.TeamMember)

NoPerson == [Github |-> "", Jira |-> "", TeamMember |-> FALSE]

\* team.PersonByGithubHandle: <<the first person with that handle, found>>
PersonByGithubHandle(people, githubHandle) ==
    LET at == {i \in 1..Len(people) : people[i].Github = githubHandle}
    IN  IF at = {} THEN <<NoPerson, FALSE>>
        ELSE <<people[CHOOSE i \in at : \A j \in at : i <= j], TRUE>>

\* ResolveIssue sending the issue on when its author is in the team
ResolveIssueByAuthor(i, teamMembers) ==
    LET author   == PersonByGithubHandle(teamMembers, i.Author)
        assignee == PersonByGithubHandle(teamMembers, i.Assignee)
        i1 == IF author[2] THEN [i EXCEPT !.AuthorJira = author[1].Jira] ELSE i
        i2 == IF assignee[2] THEN [i1 EXCEPT !.AssigneeJira = assignee[1].Jira] ELSE i1
    IN  [Issue |-> i2, Send |-> author[2]]

\* the body of AssignedToTheTeam's loop: the issue with its Jira usernames
\* resolved, and whether it is sent on
ResolveIssue(i, teamMembers) ==
    LET author   == PersonByGithubHandle(teamMembers, i.Author)
        assignee == PersonByGithubHandle(teamMembers, i.Assignee)
        i1 == IF author[2] THEN [i EXCEPT !.AuthorJira = author[1].Jira] ELSE i
        i2 == IF assignee[2] THEN [i1 EXCEPT !.AssigneeJira = assignee[1].Jira] ELSE i1
    IN  [Issue |-> i2, Send |-> assignee[2]]

\* ------------------------------------------------------------------ the source repository
\* The link header of page p of n, as the source repository writes it: a list of
\* <url>; rel="..." entries, absent (empty) when there is one page only.
\* A url is the number of the page it names.
LinkHeader(p, n) ==
    (IF p > 1 THEN <<[Url |-> p - 1, Rel |-> "prev"]>> ELSE <<>>)
    \o (IF p < n THEN <<[Url |-> p + 1, Rel |-> "next"], [Url |-> n, Rel |-> "last"]>>
        ELSE <<>>)
    \o (IF p > 1 THEN <<[Url |-> 1, Rel |-> "first"]>> ELSE <<>>)

\* NextUrl taking the first link of the header, whatever its relation
NextUrlFirstLink(linkHeader) ==
    IF linkHeader = <<>> THEN 0 ELSE linkHeader[1].Url

\* fetchGitHubIssues' next url: the group of the leftmost match of
\* linkHeaderRegex in the link header, "" (0) when there is none
NextUrl(linkHeader) ==
    LET at == {k \in 1..Len(linkHeader) : linkHeader[k].Rel = "next"}
    IN  IF at = {} THEN 0
        ELSE linkHeader[CHOOSE k \in at : \A j \in at : k <= j].Url

\* NonPullRequests without its test
NonPullRequestsKeepAll(issueBatch) == issueBatch

\* the issues of a decoded batch that fetchGitHubIssues sends on, in order
NonPullRequests(issueBatch) == SelectSeq(issueBatch, LAMBDA i : ~i.IsPR)

\* ------------------------------------------------------------------ fetchGitHubIssues
\* a page is fetched with status 200 and decoded
FetchRequest ==
    /\ exit = "running" /\ fpc = "request" /\ url # 0
    /\ requests' = Append(requests, url)
    /\ fbatch' = NonPullRequests(pages[url])
    /\ fpc' = "send"
    /\ UNCHANGED <<env, roster, pages, tickets, run, exit, url, fclosed, issued,
                   filtVars, srchVars, mainVars, doVars>>

\* a request that cannot be built, sent, answered with 200 or decoded: log.Fatalf
FetchFatal ==
    /\ exit = "running" /\ fpc = "request" /\ url # 0
    /\ \E sent \in BOOLEAN :
          /\ requests' = IF sent THEN Append(requests, url) ELSE requests
          /\ fpc' = IF sent THEN "failed" ELSE "norequest"
    /\ exit' = "exit1"
    /\ UNCHANGED <<env, roster, pages, tickets, run, url, fbatch, fclosed, issued,
                   filtVars, srchVars, mainVars, doVars>>

\* issueCh <- issue, received by AssignedToTheTeam's range loop, which resolves
\* the handles and goes on to send the issue or to receive the next one
FetchSend ==
    /\ exit = "running" /\ fpc = "send" /\ fbatch # <<>> /\ apc = "recv"
    /\ LET r == ResolveIssue(Head(fbatch), TeamMembers(roster))
       IN  /\ acur' = r.Issue
           /\ apc' = IF r.Send THEN "send" ELSE "recv"
    /\ issued' = Append(issued, Head(fbatch))
    /\ fbatch' = Tail(fbatch)
    /\ UNCHANGED <<env, roster, pages, tickets, run, exit, fpc, url, fclosed, requests,
                   oclosed, emitted, srchVars, mainVars, doVars>>

\* the batch is sent: the next url is taken from the link header
FetchAdvance ==
    /\ exit = "running" /\ fpc = "send" /\ fbatch = <<>>
    /\ url' = NextUrl(LinkHeader(url, Len(pages)))
    /\ fpc' = "request"
    /\ UNCHANGED <<env, roster, pages, tickets, run, exit, fbatch, fclosed, requests, issued,
                   filtVars, srchVars, mainVars, doVars>>

\* url == "": the loop ends and the deferred close(issueCh) runs
FetchClose ==
    /\ exit = "running" /\ fpc = "request" /\ url = 0
    /\ fclosed' = TRUE
    /\ fpc' = "done"
    /\ UNCHANGED <<env, roster, pages, tickets, run, exit, url, fbatch, requests, issued,
                   filtVars, srchVars, mainVars, doVars>>

\* ------------------------------------------------------------------ AssignedToTheTeam
\* out <- i, received by main's range loop
FilterSend ==
    /\ exit = "running" /\ apc = "send" /\ mpc = "loop"
    /\ emitted' = Append(emitted, acur)
    /\ mcur' = acur
    /\ possibleTransitions' = <<>>    \* a new iteration: the block's locals are fresh
    /\ mpc' = "process"
    /\ apc' = "recv"
    /\ UNCHANGED <<env, roster, pages, tickets, run, exit, fetchVars, acur, oclosed,
                   srchVars, alreadyKnown, pending, journal, doVars>>

\* issues is closed and drained: the range loop ends and the deferred close(out) runs
FilterClose ==
    /\ exit = "running" /\ apc = "recv" /\ fclosed
    /\ oclosed' = TRUE
    /\ apc' = "done"
    /\ UNCHANGED <<env, roster, pages, tickets, run, exit, fetchVars, acur, emitted,
                   srchVars, mainVars, doVars>>

\* ------------------------------------------------------------------ the tracker
InitialStatus == "To Do"    \* the status the tracker's workflow gives a new ticket

\* the tracker's i-th ticket as a search result: jira.Issue's Key, Fields.Summary
\* and Fields.Status.Name
SearchResult(ts, i) == [Key |-> i, Summary |-> ts[i].Summary, Status |-> ts[i].Status]

TransitionClosed == [Name |-> "Closed", ID |-> "61"]
TransitionToDo   == [Name |-> "To Do", ID |-> "11"]
TransitionOther  == [Name |-> "In Progress", ID |-> "21"]

\* what GetTransitions can answer: the transitions the workflow offers the ticket
\* (none when the call fails: its error is dropped)
TransitionLists ==
    {<<>>, <<TransitionClosed>>, <<TransitionToDo>>,
     <<TransitionOther, TransitionToDo, TransitionClosed>>}

\* the tracker applying transition id to ticket key: the ticket takes the status
\* the transition is named after; an id the workflow does not offer is refused
ApplyTransition(ts, key, offered, id) ==
    LET at == {k \in 1..Len(offered) : offered[k].ID = id}
    IN  IF at = {} THEN ts
        ELSE [ts EXCEPT ![key].Status = offered[CHOOSE k \in at : TRUE].Name]

\* ------------------------------------------------------------------ SearchIssues
\* no search response yet
NoResp == [StartAt |-> -1, Len |-> 0, Total |-> 0]

\* a search request at offset last, answered with a success status: the tracker
\* echoes the offset, reports its total and sends the next k tickets
SearchRequest ==
    /\ exit = "running" /\ spc = "request" /\ last < total
    /\ \E k \in 0..Min(PageCap, IF Len(tickets) > last THEN Len(tickets) - last ELSE 0) :
          /\ sbatch' = [j \in 1..k |-> SearchResult(tickets, last + j)]
          /\ sresp' = [StartAt |-> last, Len |-> k, Total |-> Len(tickets)]
    /\ spc' = "send"
    /\ UNCHANGED <<env, roster, pages, tickets, run, exit, fetchVars, filtVars,
                   last, total, sclosed, found, mainVars, doVars>>

\* a response with a status other than 200, 202, 204: logged, and the goroutine
\* returns (issueCh is left open)
SearchAbort ==
    /\ exit = "running" /\ spc = "request" /\ last < total
    /\ spc' = "returned"
    /\ UNCHANGED <<env, roster, pages, tickets, run, exit, fetchVars, filtVars,
                   last, total, sbatch, sresp, sclosed, found, mainVars, doVars>>

\* the search call returns an error: log.Fatalf
SearchFatal ==
    /\ exit = "running" /\ spc = "request" /\ last < total
    /\ exit' = "exit1"
    /\ UNCHANGED <<env, roster, pages, tickets, run, fetchVars, filtVars,
                   spc, last, total, sbatch, sresp, sclosed, found, mainVars, doVars>>

\* IndexInsert keeping the entry a number already has
IndexInsertKeepFirst(known, issue) ==
    LET s == FindIssueNumber(issue.Summary)
    IN  IF Len(s) > 1
        THEN LET n == Atoi(s[2])
             IN  IF n[2] THEN [Known |-> known, Panic |-> TRUE]
                 ELSE [Known |-> known @@
                                 (n[1] :> [Key |-> issue.Key, Status |-> issue.Status]),
                       Panic |-> FALSE]
        ELSE [Known |-> known, Panic |-> FALSE]

\* main's loop over the search results: the index after one more issue, and
\* whether the issue number failed to parse
IndexInsert(known, issue) ==
    LET s == FindIssueNumber(issue.Summary)
    IN  IF Len(s) > 1
        THEN LET n == Atoi(s[2])
             IN  IF n[2] THEN [Known |-> known, Panic |-> TRUE]
                 ELSE [Known |-> (n[1] :> [Key |-> issue.Key, Status |-> issue.Status])
                                 @@ known,
                       Panic |-> FALSE]
        ELSE [Known |-> known, Panic |-> FALSE]

\* issueCh <- issue, received by main's loop, which puts it in alreadyKnown
SearchSend ==
    /\ exit = "running" /\ spc = "send" /\ sbatch # <<>> /\ mpc = "drain"
    /\ LET r == IndexInsert(alreadyKnown, Head(sbatch))
       IN  /\ alreadyKnown' = r.Known
           /\ exit' = IF r.Panic THEN "panic" ELSE exit
    /\ found' = Append(found, Head(sbatch))
    /\ sbatch' = Tail(sbatch)
    /\ UNCHANGED <<env, roster, pages, tickets, run, fetchVars, filtVars,
                   spc, last, total, sresp, sclosed, mpc, mcur, possibleTransitions,
                   pending, journal, doVars>>

\* the batch is sent: last, total = res.StartAt+len(issues), res.Total
SearchAdvance ==
    /\ exit = "running" /\ spc = "send" /\ sbatch = <<>>
    /\ last' = sresp.StartAt + sresp.Len
    /\ total' = sresp.Total
    /\ spc' = "request"
    /\ UNCHANGED <<env, roster, pages, tickets, run, exit, fetchVars, filtVars,
                   sbatch, sresp, sclosed, found, mainVars, doVars>>

\* last >= total: the loop ends and close(issueCh) runs
SearchClose ==
    /\ exit = "running" /\ spc = "request" /\ ~(last < total)
    /\ sclosed' = TRUE
    /\ spc' = "done"
    /\ last' = 0 /\ total' = 0 /\ sresp' = NoResp    \* the goroutine's locals are gone
    /\ UNCHANGED <<env, roster, pages, tickets, run, exit, fetchVars, filtVars,
                   sbatch, found, mainVars, doVars>>

\* ------------------------------------------------------------------ main
\* MainStartFilter not waiting for the search results to end
MainStartFilterEarly ==
    /\ exit = "running" /\ mpc = "drain"
    /\ mpc' = "loop"
    /\ apc' = "recv"
    /\ UNCHANGED <<env, roster, pages, tickets, run, exit, fetchVars, acur, oclosed, emitted,
                   srchVars, alreadyKnown, mcur, possibleTransitions, pending, journal,
                   doVars>>

\* the search results are drained and alreadyKnown is logged: main calls
\* AssignedToTheTeam, which starts its goroutine, and ranges over its output
MainStartFilter ==
    /\ exit = "running" /\ mpc = "drain" /\ sclosed
    /\ mpc' = "loop"
    /\ apc' = "recv"
    /\ UNCHANGED <<env, roster, pages, tickets, run, exit, fetchVars, acur, oclosed, emitted,
                   srchVars, alreadyKnown, mcur, possibleTransitions, pending, journal,
                   doVars>>

\* TransitionIds with the two names swapped
TransitionIdsSwapped(transitions) ==
    LET closed == {k \in 1..Len(transitions) : transitions[k].Name = "Closed"}
        todo   == {k \in 1..Len(transitions) : transitions[k].Name = "To Do"}
    IN  [Closed |-> IF todo = {} THEN "" ELSE transitions[CHOOSE k \in todo : TRUE].ID,
         ToDo   |-> IF closed = {} THEN "" ELSE transitions[CHOOSE k \in closed : TRUE].ID]

\* TransitionIds falling back on the first transition offered when a name is missing
TransitionIdsDefaultFirst(transitions) ==
    LET closed == {k \in 1..Len(transitions) : transitions[k].Name = "Closed"}
        todo   == {k \in 1..Len(transitions) : transitions[k].Name = "To Do"}
        first  == IF transitions = <<>> THEN "" ELSE transitions[1].ID
    IN  [Closed |-> IF closed = {} THEN first ELSE transitions[CHOOSE k \in closed : TRUE].ID,
         ToDo   |-> IF todo = {} THEN first ELSE transitions[CHOOSE k \in todo : TRUE].ID]

\* transitionClosed and transitionTodo after the loop over possibleTransitions
RECURSIVE TransitionIds(_)
TransitionIds(transitions) ==
    IF transitions = <<>> THEN [Closed |-> "", ToDo |-> ""]
    ELSE LET n == Len(transitions)
             before == TransitionIds(SubSeq(transitions, 1, n - 1))
             v == transitions[n]
         IN  IF v.Name = "Closed" THEN [before EXCEPT !.Closed = v.ID]
             ELSE IF v.Name = "To Do" THEN [before EXCEPT !.ToDo = v.ID]
             ELSE before

\* Decision comparing the ticket's status with the source's spelling of closed
DecisionLowerCase(issue, known) ==
    IF issue.Number \in DOMAIN known
    THEN IF issue.Status = "closed" /\ known[issue.Number].Status # "closed"
         THEN "TransitionToClosed"
         ELSE IF issue.Status = "open" /\ known[issue.Number].Status = "closed"
         THEN "TransitionToOpen"
         ELSE "NoOp"
    ELSE "Create"

\* what the loop body does for an issue, given the index
Decision(issue, known) ==
    IF issue.Number \in DOMAIN known
    THEN IF issue.Status = "closed" /\ known[issue.Number].Status # "Closed"
         THEN "TransitionToClosed"
         ELSE IF issue.Status = "open" /\ known[issue.Number].Status = "Closed"
         THEN "TransitionToOpen"
         ELSE "NoOp"
    ELSE "Create"

\* NewTicket assigned to the issue's author
NewTicketByAuthor(issue) ==
    [Summary |-> Summary(issue), Status |-> InitialStatus,
     Assignee |-> issue.AuthorJira]

\* the fields createJiraIssue fills in (the fixed ones left out)
NewTicket(issue) ==
    [Summary |-> Summary(issue), Status |-> InitialStatus,
     Assignee |-> issue.AssigneeJira]

NoEntry == [Key |-> 0, Status |-> ""]

Call(op, key, id, summary, assignee, ok) ==
    [Op |-> op, Key |-> key, ID |-> id, Summary |-> summary, Assignee |-> assignee,
     Ok |-> ok]

\* the tracker calls of the loop body for issue, in order, when GetTransitions
\* answers offered and the mutating call is answered reply
Calls(issue, known, offered, reply, newKey) ==
    LET d  == Decision(issue, known)
        e  == IF issue.Number \in DOMAIN known THEN known[issue.Number] ELSE NoEntry
        id == IF d = "TransitionToClosed" THEN TransitionIds(offered).Closed
              ELSE TransitionIds(offered).ToDo
    IN  IF d = "Create"
        THEN <<Call("Create", IF reply = "ok" THEN newKey ELSE 0, "",
                    NewTicket(issue).Summary, NewTicket(issue).Assignee, reply = "ok")>>
        ELSE <<Call("GetTransitions", e.Key, "", <<>>, "", TRUE)>>
             \o (IF d = "NoOp" THEN <<>>
                 ELSE <<Call("DoTransition", e.Key, id, <<>>, "",
                             reply = "ok" /\ id # "")>>)

\* the mutating call the loop body sends for issue, not yet answered: none when
\* the ticket is as the issue wants it
Request(issue, known, ids) ==
    LET d == Decision(issue, known)
    IN  IF d = "Create"
        THEN <<Call("Create", 0, "", NewTicket(issue).Summary, NewTicket(issue).Assignee,
                    FALSE)>>
        ELSE IF d = "TransitionToClosed"
        THEN <<Call("DoTransition", known[issue.Number].Key, ids.Closed, <<>>, "", FALSE)>>
        ELSE IF d = "TransitionToOpen"
        THEN <<Call("DoTransition", known[issue.Number].Key, ids.ToDo, <<>>, "", FALSE)>>
        ELSE <<>>

\* Returned for a call that main does not wait for
ReturnedLater(calls) == calls

\* the calls in flight once the one main waits for has returned
Returned(calls) == Tail(calls)

\* the loop body for the issue received, up to the sending of its mutating call:
\* the index is looked up, a known ticket's transitions are listed and their ids
\* picked, and DoTransition or Create is called.  A GetTransitions that gets no
\* response at all is a nil dereference in throttlingHttpClient.Do.
MainCall ==
    /\ exit = "running" /\ mpc = "process"
    /\ \E offered \in TransitionLists, answered \in BOOLEAN :
          LET known == mcur.Number \in DOMAIN alreadyKnown
          IN  /\ possibleTransitions' = IF known /\ answered THEN offered ELSE <<>>
              /\ exit' = IF known /\ ~answered THEN "panic" ELSE exit
              /\ pending' = IF known /\ ~answered THEN pending
                            ELSE pending \o Request(mcur, alreadyKnown, TransitionIds(offered))
    /\ mpc' = "await"
    /\ UNCHANGED <<env, roster, pages, tickets, run, fetchVars, filtVars, srchVars,
                   alreadyKnown, mcur, journal, doVars>>

\* the mutating call returns and the loop body ends: the tracker calls it made
\* and what they leave in the tracker.  A call that gets no response at all is a
\* nil dereference in throttlingHttpClient.Do (and in createJiraIssue).
Reconcile ==
    /\ exit = "running" /\ mpc = "await"
    /\ \E reply \in {"ok", "err", "noresp"} :
          LET d     == Decision(mcur, alreadyKnown)
              calls == Calls(mcur, alreadyKnown, possibleTransitions, reply,
                             Len(tickets) + 1)
              lastc == calls[Len(calls)]
          IN  /\ journal' = Append(journal,
                     [Run |-> run, Issue |-> mcur, Decision |-> d, Calls |-> calls,
                      Entry |-> IF mcur.Number \in DOMAIN alreadyKnown
                                THEN alreadyKnown[mcur.Number] ELSE NoEntry])
              /\ tickets' =
                     IF lastc.Op = "Create" /\ lastc.Ok
                     THEN Append(tickets, NewTicket(mcur))
                     ELSE IF lastc.Op = "DoTransition" /\ lastc.Ok
                     THEN ApplyTransition(tickets, lastc.Key, possibleTransitions, lastc.ID)
                     ELSE tickets
              /\ exit' = IF d # "NoOp" /\ reply = "noresp" THEN "panic" ELSE exit
              /\ pending' = IF d = "NoOp" THEN pending ELSE Returned(pending)
    /\ mpc' = "loop"
    /\ UNCHANGED <<env, roster, pages, run, fetchVars, filtVars, srchVars,
                   alreadyKnown, mcur, possibleTransitions, doVars>>

\* out is closed and drained: the loop ends and main returns
MainDone ==
    /\ exit = "running" /\ mpc = "loop" /\ oclosed
    /\ mpc' = "done"
    /\ exit' = "exit0"
    /\ possibleTransitions' = <<>>
    /\ UNCHANGED <<env, roster, pages, tickets, run, fetchVars, filtVars, srchVars,
                   alreadyKnown, mcur, pending, journal, doVars>>

\* ------------------------------------------------------------------ the program
NoIssue == [Number |-> 0, Status |-> "", IsPR |-> FALSE, Assignee |-> "", Author |-> "",
            Title |-> <<>>, AssigneeJira |-> "", AuthorJira |-> ""]

\* a nil *http.Response
NilResponse == [StatusCode |-> 0, RetryAfter |-> <<>>]

DoIdle ==
    /\ dpc = "idle" /\ dres = NilResponse /\ derr = FALSE /\ dwait = 0 /\ dclock = 0
    /\ dhist = <<>>

\* nothing has run yet: the goroutines' and main's variables at their start
Fresh ==
    /\ fpc = "request" /\ url = 1 /\ fbatch = <<>> /\ fclosed = FALSE
    /\ requests = <<>> /\ issued = <<>>
    /\ apc = "idle" /\ acur = NoIssue /\ oclosed = FALSE /\ emitted = <<>>
    /\ spc = "request" /\ last = 0 /\ total = 1 /\ sbatch = <<>> /\ sresp = NoResp
    /\ sclosed = FALSE /\ found = <<>>
    /\ mpc = "drain" /\ alreadyKnown = <<>> /\ mcur = NoIssue
    /\ possibleTransitions = <<>> /\ pending = <<>>

\* main starts fetchGitHubIssues and SearchIssues and ranges over the search results
ProcessStart ==
    /\ exit = "running"
    /\ Fresh

\* ---- startup
EnvNames == {"GITHUB_TOKEN", "JIRA_TOKEN", "PEOPLE", "TEAM"}

\* every required variable set
FullEnv == [v \in EnvNames |-> "x"]

\* ExUsage looking at the two tokens only
ExUsageTokensOnly(e) == e["GITHUB_TOKEN"] = "" \/ e["JIRA_TOKEN"] = ""

\* init's ex_usage after its four tests
ExUsage(e) ==
    e["GITHUB_TOKEN"] = "" \/ e["JIRA_TOKEN"] = "" \/ e["PEOPLE"] = "" \/ e["TEAM"] = ""

\* init(): os.Exit(64) when a required variable is empty, before main runs
init ==
    /\ exit = "init"
    /\ exit' = IF ExUsage(env) THEN "exit64" ELSE "main"
    /\ UNCHANGED <<env, roster, pages, tickets, run, fetchVars, filtVars, srchVars,
                   mainVars, doVars>>

\* main, up to the start of the goroutines: team.Load reads the roster (an error
\* is log.Fatalf) and the tracker client is built
MainSetup ==
    /\ exit = "main"
    /\ \E loaded \in BOOLEAN : exit' = IF loaded THEN "running" ELSE "exit1"
    /\ UNCHANGED <<env, roster, pages, tickets, run, fetchVars, filtVars, srchVars,
                   mainVars, doVars>>

\* the program is run again, on the same source repository and roster and on
\* the tracker as the run before left it
Restart ==
    /\ exit = "exit0" /\ run = 1
    /\ run' = run + 1
    /\ exit' = "running"
    /\ fpc' = "request" /\ url' = 1 /\ fbatch' = <<>> /\ fclosed' = FALSE
    /\ requests' = <<>> /\ issued' = <<>>
    /\ apc' = "idle" /\ acur' = NoIssue /\ oclosed' = FALSE /\ emitted' = <<>>
    /\ spc' = "request" /\ last' = 0 /\ total' = 1 /\ sbatch' = <<>> /\ sresp' = NoResp
    /\ sclosed' = FALSE /\ found' = <<>>
    /\ mpc' = "drain" /\ alreadyKnown' = <<>> /\ mcur' = NoIssue
    /\ possibleTransitions' = <<>> /\ pending' = <<>>
    /\ UNCHANGED <<env, roster, pages, tickets, journal, doVars>>

Issue(n, status, pr, assignee, author, title) ==
    [Number |-> n, Status |-> status, IsPR |-> pr, Assignee |-> assignee,
     Author |-> author, Title |-> title, AssigneeJira |-> "", AuthorJira |-> ""]

Person(github, jira, member) == [Github |-> github, Jira |-> jira, TeamMember |-> member]

Ticket(summary, status) == [Summary |-> summary, Status |-> status, Assignee |-> ""]

SeqsUpTo(S, n) == UNION {[1..k -> S] : k \in 0..n}

RECURSIVE Flatten(_)
Flatten(ps) == IF ps = <<>> THEN <<>> ELSE Head(ps) \o Flatten(Tail(ps))

\* the sequence s cut into Len(cuts) + 1 pages after the positions cuts
Paged(s, cuts) ==
    [p \in 1..(Len(cuts) + 1) |->
        SubSeq(s, (IF p = 1 THEN 0 ELSE cuts[p - 1]) + 1,
                  IF p > Len(cuts) THEN Len(s) ELSE cuts[p])]

\* the chains of 1..MaxPages pages holding at most MaxItems issues of kinds
Chains(kinds) ==
    UNION {{Paged(s, cuts) :
               cuts \in {c \in UNION {[1..q -> 0..Len(s)] : q \in 0..(MaxPages - 1)} :
                            \A i \in 2..Len(c) : c[i - 1] <= c[i]}} :
           s \in SeqsUpTo(kinds, MaxItems)}

\* the single pages holding at most MaxItems issues of kinds
OnePage(kinds) == {<<s>> : s \in SeqsUpTo(kinds, MaxItems)}

InitWith(rosters, chains, trackers) ==
    /\ env = FullEnv
    /\ roster \in rosters
    /\ pages \in chains
    /\ tickets \in trackers
    /\ run = 1
    /\ journal = <<>>
    /\ ProcessStart
    /\ DoIdle

Next ==
    \/ FetchRequest \/ FetchFatal \/ FetchSend \/ FetchAdvance \/ FetchClose
    \/ FilterSend \/ FilterClose
    \/ SearchRequest \/ SearchAbort \/ SearchFatal \/ SearchSend \/ SearchAdvance
    \/ SearchClose
    \/ MainStartFilter \/ MainCall \/ Reconcile \/ MainDone

TheTeam == <<Person("alice", "ajira", TRUE), Person("bob", "bjira", FALSE)>>

Tag(n) == TagPrefix \o Itoa(n) \o TagSuffix

TinyTrackers == {<<>>, <<Ticket(Tag(MinNum) \o <<"t">>, "To Do")>>}

\* ---- the fetcher's inputs: pull requests and issues, over one or more pages
FetchKinds ==
    {Issue(n, "open", pr, "alice", "alice", <<"t">>) : n \in Numbers, pr \in BOOLEAN}

InitFetch == InitWith({TheTeam}, Chains(FetchKinds), TinyTrackers)

SpecFetch == InitFetch /\ [][Next]_vars

\* ------------------------------------------------------------------ throttlingHttpClient.Do
StatusTooManyRequests == 429

\* the wait Do chooses for a 429 response with this retry-after header, in seconds
ThrottleWait(retryAfter) ==
    IF retryAfter # <<>>
    THEN LET n == Atoi(retryAfter)
         IN  IF n[2] THEN n[1] ELSE 1
    ELSE 1

HeaderChars == {"0", "2", "x"}

\* what the wrapped client's Do can return: a response, or nil and an error
TransportReplies ==
    {NilResponse} \cup [StatusCode : {200, 500, StatusTooManyRequests},
                RetryAfter : SeqsUpTo(HeaderChars, MaxHdrLen)]

\* res, err := c.Client.Do(req), and the test of res.StatusCode: a nil res is a
\* nil dereference; a 429 chooses its wait; anything else is returned
DoCall ==
    /\ dpc = "call" /\ Len(dhist) < MaxAttempts
    /\ \E reply \in TransportReplies :
          /\ dres' = reply
          /\ derr' = (reply = NilResponse)
          /\ dhist' = Append(dhist, reply)
          /\ IF reply = NilResponse
             THEN dpc' = "panic" /\ dwait' = dwait
             ELSE IF reply.StatusCode = StatusTooManyRequests
             THEN dpc' = "sleep" /\ dwait' = ThrottleWait(reply.RetryAfter)
             ELSE dpc' = "returned" /\ dwait' = dwait
    /\ UNCHANGED <<env, roster, pages, tickets, run, exit, fetchVars, filtVars, srchVars,
                   mainVars, dclock>>

\* time.Sleep(wait), then the same request again: return c.Do(req)
DoSleep ==
    /\ dpc = "sleep"
    /\ dclock' = dclock + dwait
    /\ dpc' = "call"
    /\ UNCHANGED <<env, roster, pages, tickets, run, exit, fetchVars, filtVars, srchVars,
                   mainVars, dres, derr, dwait, dhist>>

InitDo ==
    /\ env = FullEnv /\ roster = TheTeam /\ pages = <<<<>>>> /\ tickets = <<>>
    /\ run = 1 /\ journal = <<>>
    /\ ProcessStart
    /\ dpc = "call" /\ dres = NilResponse /\ derr = FALSE /\ dwait = 0 /\ dclock = 0
    /\ dhist = <<>>

NextDo == DoCall \/ DoSleep

SpecDo == InitDo /\ [][NextDo]_vars

\* C7: when the first reply is 429 with retry-after 2 and the second is a success,
\* Do returns the second reply after at least 2 seconds of waiting
ThrottleRecovery ==
    (/\ dpc = "returned"
     /\ Len(dhist) = 2
     /\ dhist[1] = [StatusCode |-> StatusTooManyRequests, RetryAfter |-> <<"2">>]
     /\ dhist[2].StatusCode = 200)
    => (dclock >= 2 /\ dres = dhist[2] /\ ~derr)

\* C8: the wait chosen on a 429 reply is the retry-after header's number of
\* seconds when it parses as an integer, and one second when it is absent or
\* does not parse
WaitFollowsRetryAfter ==
    dpc = "sleep" =>
        LET h == dhist[Len(dhist)].RetryAfter
        IN  dwait = IF h # <<>> /\ ~Atoi(h)[2] THEN Atoi(h)[1] ELSE 1

\* ------------------------------------------------------------------ the source side
\* the pages decoded so far, in the order they were requested
Decoded ==
    LET n == Len(requests) - (IF fpc = "failed" THEN 1 ELSE 0)
    IN  [k \in 1..n |-> pages[requests[k]]]

IsPrefix(s, t) == Len(s) <= Len(t) /\ SubSeq(t, 1, Len(s)) = s

\* C2: the fetcher never emits an item that carries a pull-request sub-object,
\* and once it is through with a page it has emitted every item of the pages
\* decoded so far that carries none, in order
PullRequestsDropped ==
    LET want == SelectSeq(Flatten(Decoded), LAMBDA i : i.IsPR = FALSE)
    IN  /\ \A k \in 1..Len(issued) : ~issued[k].IsPR
        /\ IsPrefix(issued, want)
        /\ (fpc \in {"request", "done"} => issued = want)

PullRequestsDroppedWitness ==
    /\ fclosed
    /\ \E k \in 1..Len(Flatten(pages)) : Flatten(pages)[k].IsPR
    /\ issued # <<>>

\* C5: on a chain of N pages, each but the last advertising rel="next", the
\* fetcher requests pages 1..N in order and never another one, and when it
\* closes its output it has made exactly these N requests and emitted exactly
\* the items of the N pages that are no pull requests, in page order
SourcePagination ==
    LET N == Len(pages)
    IN  /\ exit = "running" =>
              /\ Len(requests) <= N
              /\ \A k \in 1..Len(requests) : requests[k] = k
        /\ fclosed =>
              /\ Len(requests) = N
              /\ fbatch = <<>>
              /\ issued = SelectSeq(Flatten(pages), LAMBDA i : i.IsPR = FALSE)

SourcePaginationWitness ==
    /\ fclosed
    /\ Len(pages) >= 2
    /\ \A p \in 1..Len(pages) : \E k \in 1..Len(pages[p]) : ~pages[p][k].IsPR

\* ---- the filter's inputs: assignees and authors in and out of the team
TeamWithGhost == <<Person("", "ghost", TRUE), Person("alice", "ajira", TRUE)>>
TeamWithFormerMember == <<Person("alice", "old", FALSE), Person("alice", "ajira", TRUE)>>

FilterKinds ==
    {Issue(MinNum, "open", FALSE, a, b, <<"t">>) :
        a \in {"alice", "bob", "mallory", ""}, b \in {"alice", "mallory"}}

InitFilter ==
    InitWith({TheTeam, TeamWithGhost, TeamWithFormerMember}, OnePage(FilterKinds),
             TinyTrackers)

SpecFilter == InitFilter /\ [][Next]_vars

IsTeamHandle(h) == \E k \in 1..Len(roster) : roster[k].TeamMember /\ roster[k].Github = h

\* C1: an item whose assignee handle is no team member's handle is never emitted
\* by the filter stage and never reaches the reconciler, whoever its author is
OnlyTeamIssuesPass ==
    /\ \A k \in 1..Len(emitted) : IsTeamHandle(emitted[k].Assignee)
    /\ apc = "send" => IsTeamHandle(acur.Assignee)
    /\ mpc = "process" => IsTeamHandle(mcur.Assignee)
    /\ \A k \in 1..Len(journal) : IsTeamHandle(journal[k].Issue.Assignee)

\* the filter has taken an item assigned outside the team whose author is in the
\* team, and has closed its output
OnlyTeamIssuesPassWitness ==
    /\ oclosed
    /\ \E k \in 1..Len(issued) :
          ~IsTeamHandle(issued[k].Assignee) /\ IsTeamHandle(issued[k].Author)
    /\ emitted # <<>>

\* ---- the search's inputs: tickets with and without the tag
SearchSummaries ==
    {Tag(MinNum) \o <<"t">>, Tag(MaxNum) \o <<"t">>, <<"x">>,
     TagPrefix \o Itoa(MinNum) \o <<" ", "t">>, <<"a">> \o Tag(MinNum)}

SearchTrackers ==
    SeqsUpTo({Ticket(s, st) : s \in SearchSummaries, st \in {"To Do", "Closed"}},
             MaxTickets)

InitSearch ==
    InitWith({TheTeam},
             {<<<<Issue(MinNum, "closed", FALSE, "alice", "alice", <<"t">>)>>>>},
             SearchTrackers)

SpecSearch == InitSearch /\ [][Next]_vars

\* C6: each search request's start offset is beyond that of the request before
\* it (the one the last response echoes), and when SearchIssues closes its output
\* it has emitted every issue of every page it received
SearchPagination ==
    /\ (exit = "running" /\ spc = "request" /\ last < total) => last > sresp.StartAt
    /\ sclosed => sbatch = <<>>

\* ------------------------------------------------------------------ two runs in a row
\* the title of item n: the least number's is plain, the others quote its tag
TitleOf(n) == IF n = MinNum THEN <<"t">> ELSE Tag(MinNum) \o <<"7">>

RunKinds ==
    {Issue(n, st, FALSE, "alice", "mallory", TitleOf(n)) :
        n \in Numbers, st \in {"open", "closed"}}

\* trackers that know none, one (twice) or both of the least two numbers
RunTrackers ==
    LET todo   == Ticket(Tag(MinNum) \o <<"t">>, "To Do")
        closed == Ticket(Tag(MinNum) \o <<"t">>, "Closed")
        other  == Ticket(Tag(MinNum + 1) \o <<"t">>, "Closed")
    IN  {<<>>, <<closed, todo>>, <<todo, other>>}

InitRuns ==
    InitWith({TheTeam}, OnePage(RunKinds), RunTrackers)

NextRuns == Next \/ Restart

SpecRuns == InitRuns /\ [][NextRuns]_vars

CallsOf(j, op) == SelectSeq(j.Calls, LAMBDA c : c.Op = op)

\* the journal's entries of the run that is under way were decided on its index
EntriesFollowIndex ==
    \A k \in 1..Len(journal) :
        journal[k].Run = run =>
            LET n == journal[k].Issue.Number
            IN  IF n \in DOMAIN alreadyKnown
                THEN journal[k].Entry = alreadyKnown[n]
                ELSE journal[k].Entry.Key = 0

\* C9: for an item with a matching index entry, a closed item whose ticket is
\* not Closed has the transition named "Closed" applied to the ticket's key, an
\* open item whose ticket is Closed has the one named "To Do" applied, and the
\* other two cases make no mutating call; no case creates a ticket
DecisionTable ==
    /\ EntriesFollowIndex
    /\ \A k \in 1..Len(journal) :
          LET j   == journal[k]
              dts == CallsOf(j, "DoTransition")
              want == IF j.Issue.Status = "closed" /\ j.Entry.Status # "Closed"
                      THEN TransitionClosed.ID
                      ELSE IF j.Issue.Status = "open" /\ j.Entry.Status = "Closed"
                      THEN TransitionToDo.ID
                      ELSE ""
          IN  j.Entry.Key # 0 =>
                 /\ CallsOf(j, "Create") = <<>>
                 /\ IF want = "" THEN dts = <<>>
                    ELSE /\ Len(dts) = 1
                         /\ dts[1].Key = j.Entry.Key
                         /\ dts[1].ID \in {want, ""}
                         /\ dts[1].Ok => dts[1].ID = want

\* both transitions have been applied with success
DecisionTableWitness ==
    /\ \E k \in 1..Len(journal) :
          /\ journal[k].Decision = "TransitionToClosed"
          /\ journal[k].Calls[2].Ok
          /\ tickets[journal[k].Entry.Key].Status = "Closed"
    /\ \E k \in 1..Len(journal) :
          /\ journal[k].Decision = "TransitionToOpen"
          /\ journal[k].Calls[2].Ok
    /\ \E k \in 1..Len(journal) :
          journal[k].Entry.Key # 0 /\ journal[k].Decision = "NoOp"

\* C10: for an item with no matching index entry, open or closed, the reconciler
\* makes exactly one call, a create-ticket call whose summary is GH-orc-<number>:
\* <title> and whose assignee is the tracker username of the first team member
\* with the item's assignee handle
CreateWhenAbsent ==
    /\ EntriesFollowIndex
    /\ \A k \in 1..Len(journal) :
          LET j == journal[k]
              i == j.Issue
              members == {m \in 1..Len(roster) :
                             roster[m].TeamMember /\ roster[m].Github = i.Assignee}
          IN  j.Entry.Key = 0 =>
                 /\ Len(j.Calls) = 1
                 /\ j.Calls[1].Op = "Create"
                 /\ j.Calls[1].Summary = TagPrefix \o Itoa(i.Number) \o <<":", " ">> \o i.Title
                 /\ members # {}
                 /\ j.Calls[1].Assignee =
                        roster[CHOOSE m \in members : \A o \in members : m <= o].Jira

\* a closed item and an open item without a ticket have both been created
CreateWhenAbsentWitness ==
    /\ \E k \in 1..Len(journal) :
          /\ journal[k].Entry.Key = 0 /\ journal[k].Issue.Status = "closed"
          /\ journal[k].Calls[1].Ok
    /\ \E k \in 1..Len(journal) :
          /\ journal[k].Entry.Key = 0 /\ journal[k].Issue.Status = "open"

\* the tickets created so far: the run, the item number, the key and the summary
Created ==
    {[Run |-> journal[k].Run, Number |-> journal[k].Issue.Number,
      Key |-> journal[k].Calls[1].Key, Summary |-> journal[k].Calls[1].Summary] :
        k \in {x \in 1..Len(journal) :
                  journal[x].Calls[1].Op = "Create" /\ journal[x].Calls[1].Ok}}

\* C4: the summary of a ticket created for item n starts with the tag GH-orc-n
\* and a colon and a space; in a later run, when the index-building loop takes
\* the created ticket from the search results it maps n to the ticket's key, and
\* the finished index maps n to the key of the last ticket created for n
RoundTrip ==
    \A c \in Created :
        /\ IsPrefix(TagPrefix \o Itoa(c.Number) \o <<":", " ">>, c.Summary)
        /\ tickets[c.Key].Summary = c.Summary
        /\ (c.Run < run /\ found # <<>> /\ found[Len(found)].Key = c.Key) =>
              /\ c.Number \in DOMAIN alreadyKnown
              /\ alreadyKnown[c.Number].Key = c.Key
        /\ (c.Run < run /\ mpc # "drain") =>
              /\ c.Number \in DOMAIN alreadyKnown
              /\ alreadyKnown[c.Number].Key \in
                     {d.Key : d \in {x \in Created : x.Number = c.Number /\ x.Key >= c.Key}}
              /\ (\A x \in Created : x.Number = c.Number => x.Key <= c.Key)
                     => alreadyKnown[c.Number].Key = c.Key

\* the second run's index holds a ticket the first run created for a two-digit
\* number whose title quotes another tag
RoundTripWitness ==
    /\ run = 2 /\ mpc # "drain"
    /\ \E c \in Created :
          /\ c.Run = 1 /\ c.Number >= 10
          /\ Len(c.Summary) > Len(Tag(c.Number)) + 1
          /\ c.Number \in DOMAIN alreadyKnown
          /\ alreadyKnown[c.Number].Key = c.Key

\* the journal entries of run r for item number n
EntriesOf(r, n) ==
    {k \in 1..Len(journal) : journal[k].Run = r /\ journal[k].Issue.Number = n}

AllOk(j) == \A c \in 1..Len(j.Calls) : j.Calls[c].Ok

OccursOnce(n) ==
    Cardinality({k \in 1..Len(Flatten(pages)) : Flatten(pages)[k].Number = n}) = 1

\* C3 as stated: in a second run on the unchanged source and on the tracker as
\* a first run whose calls all succeeded left it, no item leads to a
\* create-ticket or apply-transition call
Idempotence ==
    \A k \in 1..Len(journal) :
        (/\ journal[k].Run = 2
         /\ \A x \in 1..Len(journal) : journal[x].Run = 1 => AllOk(journal[x]))
        => journal[k].Decision = "NoOp"

\* C3, amended: the second run creates no ticket for an item whose ticket the
\* first run found or created; and an item whose number occurs once in the
\* source and whose first-run calls succeeded gets NoOp, unless it is closed and
\* the first run created its ticket: then the second run applies Closed
SecondRunSettles ==
    \A k \in 1..Len(journal) :
        LET j2     == journal[k]
            firsts == EntriesOf(1, j2.Issue.Number)
        IN  j2.Run = 2 =>
               /\ (\E x \in firsts : journal[x].Entry.Key # 0 \/ AllOk(journal[x]))
                      => j2.Decision # "Create"
               /\ (OccursOnce(j2.Issue.Number) /\ \A x \in firsts : AllOk(journal[x])) =>
                      /\ firsts # {}
                      /\ j2.Decision =
                            IF /\ j2.Issue.Status = "closed"
                               /\ \E x \in firsts : journal[x].Decision = "Create"
                            THEN "TransitionToClosed"
                            ELSE "NoOp"

\* the second run closes the ticket the first run created for a closed item,
\* and leaves alone a ticket the first run closed
SecondRunSettlesWitness ==
    /\ \E k \in 1..Len(journal) :
          /\ journal[k].Run = 2 /\ journal[k].Decision = "TransitionToClosed"
          /\ OccursOnce(journal[k].Issue.Number)
          /\ \E x \in EntriesOf(1, journal[k].Issue.Number) :
                journal[x].Decision = "Create" /\ AllOk(journal[x])
    /\ \E k \in 1..Len(journal) :
          /\ journal[k].Run = 2 /\ journal[k].Decision = "NoOp"
          /\ OccursOnce(journal[k].Issue.Number)
          /\ \E x \in EntriesOf(1, journal[k].Issue.Number) :
                journal[x].Decision = "TransitionToClosed" /\ AllOk(journal[x])

\* ------------------------------------------------------------------ the index
\* ---- the index's inputs: tickets with the tag at the start, further on, twice,
\* and without it
IndexKinds ==
    {Ticket(Tag(MinNum) \o <<"t">>, "To Do"), Ticket(Tag(MinNum) \o <<"t">>, "Closed"),
     Ticket(<<"a">> \o Tag(MinNum), "Closed"), Ticket(Tag(MaxNum) \o Tag(MinNum), "To Do"),
     Ticket(TagPrefix \o Itoa(MinNum) \o <<" ", "t">>, "To Do")}

InitIndex ==
    InitWith({TheTeam},
             {<<<<Issue(MinNum, "closed", FALSE, "alice", "alice", <<"t">>)>>>>},
             SeqsUpTo(IndexKinds, MaxTickets))

SpecIndex == InitIndex /\ [][Next]_vars

\* the tickets this run has created
CreatedInRun ==
    {k \in 1..Len(journal) :
        journal[k].Run = run /\ journal[k].Calls[1].Op = "Create" /\ journal[k].Calls[1].Ok}

\* C16: before the search stream is closed and every ticket of the tracker is in
\* the index's input, the filter stage is not started, no item of its output is
\* consumed and no create-ticket, list-transitions or apply-transition call is made
Barrier ==
    (\/ mpc # "drain" \/ apc # "idle" \/ emitted # <<>> \/ pending # <<>>
     \/ possibleTransitions # <<>>
     \/ \E k \in 1..Len(journal) : journal[k].Run = run)
    => /\ sclosed /\ sbatch = <<>> /\ spc = "done"
       /\ Len(found) + Cardinality(CreatedInRun) = Len(tickets)
       /\ \A k \in 1..Len(found) :
             found[k].Key = k /\ found[k].Summary = tickets[k].Summary

\* a mutating call is in flight on an index built from two search results
BarrierWitness ==
    /\ exit = "running" /\ pending # <<>> /\ Len(found) = 2
    /\ DOMAIN alreadyKnown # {}

\* the number of the leftmost tag GH-orc-<n>:<space> in summary, 0 when it has none
LeftmostTagNumber(summary) ==
    LET at == {i \in 1..Len(summary) :
                  \E n \in Numbers : i + Len(Tag(n)) - 1 <= Len(summary)
                                     /\ SubSeq(summary, i, i + Len(Tag(n)) - 1) = Tag(n)}
    IN  IF at = {} THEN 0
        ELSE LET i == CHOOSE j \in at : \A k \in at : j <= k
             IN  CHOOSE n \in Numbers : /\ i + Len(Tag(n)) - 1 <= Len(summary)
                                        /\ SubSeq(summary, i, i + Len(Tag(n)) - 1) = Tag(n)

\* the positions in the search stream of the issues tagged with n
Hits(n) == {k \in 1..Len(found) : LeftmostTagNumber(found[k].Summary) = n}

Last(S) == CHOOSE k \in S : \A j \in S : j <= k

First(S) == CHOOSE k \in S : \A j \in S : k <= j

\* C17: the index built from the search results received so far holds exactly
\* the numbers tagged in their summaries (the leftmost tag of a summary counts),
\* an issue without the tag adds nothing, and the entry of a number is the key and
\* status of the last issue received that is tagged with it
IndexBuilt ==
    /\ DOMAIN alreadyKnown = {n \in Numbers : Hits(n) # {}}
    /\ \A n \in DOMAIN alreadyKnown :
          alreadyKnown[n] = [Key |-> found[Last(Hits(n))].Key,
                             Status |-> found[Last(Hits(n))].Status]

\* the search stream is closed after an issue without the tag and an issue whose
\* summary quotes a second tag after its own
IndexBuiltWitness ==
    /\ sclosed
    /\ \E k \in 1..Len(found) : LeftmostTagNumber(found[k].Summary) = 0
    /\ \E k \in 1..Len(found) : found[k].Summary = Tag(MaxNum) \o Tag(MinNum)
    /\ MaxNum \in DOMAIN alreadyKnown /\ MinNum \notin DOMAIN alreadyKnown

\* C18 as stated: a number tagged on several tickets is associated with the first
\* of them in the search stream
FirstMatchWins ==
    \A n \in Numbers :
        Cardinality(Hits(n)) > 1 =>
            (n \in DOMAIN alreadyKnown /\ alreadyKnown[n].Key = found[First(Hits(n))].Key)

\* C18, amended: a number tagged on several tickets is associated with the last
\* of them received, and no ticket is the entry of two numbers
LastMatchWins ==
    /\ \A n \in Numbers :
          Cardinality(Hits(n)) > 1 =>
              (n \in DOMAIN alreadyKnown /\ alreadyKnown[n].Key = found[Last(Hits(n))].Key)
    /\ \A n, m \in DOMAIN alreadyKnown :
          alreadyKnown[n].Key = alreadyKnown[m].Key => n = m

\* two tickets with different statuses carry the same number, and the index is built
LastMatchWinsWitness ==
    /\ sclosed /\ mpc # "drain"
    /\ \E n \in Numbers :
          /\ Cardinality(Hits(n)) = 2
          /\ found[First(Hits(n))].Status # found[Last(Hits(n))].Status
    /\ Cardinality(DOMAIN alreadyKnown) = 1

\* ------------------------------------------------------------------ failures in the loop
\* the id of the transition named name among those offered, "" when there is none
IdOfName(offered, name) ==
    LET at == {k \in 1..Len(offered) : offered[k].Name = name}
    IN  IF at = {} THEN "" ELSE offered[CHOOSE k \in at : TRUE].ID

\* the decision the index gives an item of this status whose entry is e
DecisionFor(status, e) ==
    IF e.Key = 0 THEN "Create"
    ELSE IF status = "closed" /\ e.Status # "Closed" THEN "TransitionToClosed"
    ELSE IF status = "open" /\ e.Status = "Closed" THEN "TransitionToOpen"
    ELSE "NoOp"

\* C11: for an open item whose ticket is Closed, the reconciler lists the
\* ticket's transitions and then applies the one named "To Do" to the ticket's
\* key; when none has that name the id is empty and the attempt fails; and every
\* item of the run is decided on the index alone, whatever became of the attempts
\* before it
ReopenClosedTicket ==
    /\ (/\ exit = "running" /\ mpc = "await"
        /\ mcur.Status = "open"
        /\ mcur.Number \in DOMAIN alreadyKnown
        /\ alreadyKnown[mcur.Number].Status = "Closed")
       => /\ Len(pending) = 1
          /\ pending[1].Op = "DoTransition"
          /\ pending[1].Key = alreadyKnown[mcur.Number].Key
          /\ pending[1].ID = IdOfName(possibleTransitions, "To Do")
    /\ (/\ mpc = "loop" /\ journal # <<>>
        /\ journal[Len(journal)].Run = run
        /\ journal[Len(journal)].Decision = "TransitionToOpen")
       => LET j == journal[Len(journal)]
          IN  /\ Len(j.Calls) = 2
              /\ j.Calls[1].Op = "GetTransitions" /\ j.Calls[1].Key = j.Entry.Key
              /\ j.Calls[2].Op = "DoTransition" /\ j.Calls[2].Key = j.Entry.Key
              /\ j.Calls[2].ID = IdOfName(possibleTransitions, "To Do")
              /\ IdOfName(possibleTransitions, "To Do") = "" => ~j.Calls[2].Ok
    /\ \A k \in 1..Len(journal) :
          journal[k].Run = run =>
             /\ journal[k].Entry = IF journal[k].Issue.Number \in DOMAIN alreadyKnown
                                   THEN alreadyKnown[journal[k].Issue.Number] ELSE NoEntry
             /\ journal[k].Decision = DecisionFor(journal[k].Issue.Status, journal[k].Entry)

\* the workflow offered no "To Do" transition for a closed ticket of an open
\* item, the attempt failed, and the run went on to act on the next item
ReopenClosedTicketWitness ==
    /\ exit = "running" /\ mpc = "loop" /\ Len(journal) >= 2
    /\ LET j == journal[Len(journal) - 1]
       IN  /\ j.Run = run /\ j.Issue.Status = "open" /\ j.Entry.Status = "Closed"
           /\ j.Calls[2].ID = "" /\ ~j.Calls[2].Ok
    /\ journal[Len(journal)].Run = run
    /\ journal[Len(journal)].Decision # "NoOp"
    /\ AllOk(journal[Len(journal)])

\* C12: a create-ticket or apply-transition call that fails, a call that gets no
\* response at all included, leaves the process running: the loop goes on to the
\* next item
FailuresContained ==
    (/\ mpc = "loop" /\ journal # <<>>
     /\ journal[Len(journal)].Run = run
     /\ ~AllOk(journal[Len(journal)]))
    => exit # "panic"

\* C13: when a search request is answered with a status other than 200, 202 and
\* 204, SearchIssues closes its output
SearchClosesOnBadStatus == spc = "returned" => sclosed

\* C14: after a request-construction, transport, status or decode error the
\* fetcher has closed its output, and the process has not exited with a non-zero
\* status
FetchErrorEndsStream ==
    fpc \in {"failed", "norequest"} => (fclosed /\ exit # "exit1")

\* ------------------------------------------------------------------ one call at a time
\* the items whose loop body has ended in this run, in order
Reconciled ==
    LET js == SelectSeq(journal, LAMBDA j : j.Run = run)
    IN  [k \in 1..Len(js) |-> js[k].Issue]

\* C19: at most one create-ticket or apply-transition call is in flight, it is
\* the call for the item the filter stage delivered last, and the items before
\* it have had their calls answered, in the order the filter stage delivered them
Sequential ==
    /\ Len(pending) <= 1
    /\ pending # <<>> =>
          /\ mpc = "await" /\ emitted # <<>> /\ mcur = emitted[Len(emitted)]
          /\ pending[1].Op \in {"Create", "DoTransition"}
          /\ pending[1].Op = "Create" =>
                 pending[1].Summary = Tag(mcur.Number) \o mcur.Title
          /\ pending[1].Op = "DoTransition" =>
                 /\ mcur.Number \in DOMAIN alreadyKnown
                 /\ pending[1].Key = alreadyKnown[mcur.Number].Key
          /\ Reconciled = SubSeq(emitted, 1, Len(emitted) - 1)
    /\ IsPrefix(Reconciled, emitted)
    /\ Len(emitted) - Len(Reconciled) <= 1
    /\ (exit = "running" /\ mpc = "await" /\ DecisionFor(mcur.Status,
            IF mcur.Number \in DOMAIN alreadyKnown THEN alreadyKnown[mcur.Number]
            ELSE NoEntry) # "NoOp") => Len(pending) = 1

\* the create-ticket call for a second item is in flight after the one for the
\* first item has been answered, while the fetcher is still at work
SequentialWitness ==
    /\ exit = "running" /\ Len(pending) = 1 /\ pending[1].Op = "Create"
    /\ Len(journal) = 1 /\ journal[1].Calls[1].Op = "Create" /\ journal[1].Calls[1].Ok
    /\ journal[1].Issue.Number # mcur.Number
    /\ ~fclosed

\* ------------------------------------------------------------------ termination
\* ---- a source repository whose every page is served with 200 and a tracker
\* whose every search request succeeds: the fatal paths are left out.  A
\* throttled tracker request is retried inside the call until it is answered.
LiveKinds == {Issue(MinNum, "closed", FALSE, "alice", "alice", <<"t">>)}

InitLive == InitWith({TheTeam}, Chains(LiveKinds), TinyTrackers)

NextLive ==
    \/ FetchRequest \/ FetchSend \/ FetchAdvance \/ FetchClose
    \/ FilterSend \/ FilterClose
    \/ SearchRequest \/ SearchSend \/ SearchAdvance \/ SearchClose
    \/ MainStartFilter \/ MainCall \/ Reconcile \/ MainDone

\* each of the four routines takes its next step when it can
Fairness ==
    /\ WF_vars(FetchRequest \/ FetchSend \/ FetchAdvance \/ FetchClose)
    /\ WF_vars(FilterSend \/ FilterClose)
    /\ WF_vars(SearchRequest \/ SearchSend \/ SearchAdvance \/ SearchClose)
    /\ WF_vars(MainStartFilter \/ MainCall \/ Reconcile \/ MainDone)

SpecLive == InitLive /\ [][NextLive]_vars /\ Fairness

\* C20: the run terminates: the three producers close their outputs, the
\* reconciliation loop ends and main returns, with no routine left at a channel
\* operation
Termination ==
    <>(/\ exit = "exit0" /\ mpc = "done"
       /\ fclosed /\ fpc = "done"
       /\ oclosed /\ apc = "done"
       /\ sclosed /\ spc = "done")

\* ------------------------------------------------------------------ items that need care
\* C22: within a run, at most one create-ticket call is made for a source item
\* number, whatever pages the source repository serves
OneCreatePerNumber ==
    \A n \in Numbers :
        Cardinality({k \in 1..Len(journal) :
                        /\ journal[k].Run = run
                        /\ journal[k].Issue.Number = n
                        /\ journal[k].Calls[1].Op = "Create"}) <= 1

\* C23: an item with an empty assignee handle is never emitted by the filter
\* stage and never leads to a create-ticket or apply-transition call, whatever
\* the roster
UnassignedHeldBack ==
    /\ \A k \in 1..Len(emitted) : emitted[k].Assignee # ""
    /\ \A k \in 1..Len(journal) :
          journal[k].Issue.Assignee = "" => journal[k].Decision = "NoOp"
    /\ pending # <<>> => mcur.Assignee # ""

\* ------------------------------------------------------------------ a transport failure in Do
\* C21: when the wrapped client answers with an error and no response, Do
\* returns that error, with no sleep, no retry and no crash
TransportErrorReturned ==
    (dhist # <<>> /\ dhist[Len(dhist)] = NilResponse)
    => (dpc = "returned" /\ derr /\ dres = NilResponse)

\* ------------------------------------------------------------------ startup
StartupKinds == {Issue(MinNum, st, FALSE, "alice", "alice", <<"t">>) : st \in {"open", "closed"}}

InitStartup ==
    /\ env \in [EnvNames -> {"", "x"}]
    /\ roster = TheTeam
    /\ pages \in OnePage(StartupKinds)
    /\ tickets \in TinyTrackers
    /\ run = 1
    /\ journal = <<>>
    /\ exit = "init"
    /\ Fresh
    /\ DoIdle

NextStartup == init \/ MainSetup \/ Next

SpecStartup == InitStartup /\ [][NextStartup]_vars

\* a request has gone to the source repository or to the tracker
RequestSent ==
    \/ requests # <<>> \/ fpc # "request"
    \/ spc # "request" \/ sresp # NoResp
    \/ pending # <<>> \/ journal # <<>> \/ mpc # "drain"

\* C15: when a token or one of the two roster variables is missing, the process
\* exits with status 64 without having sent a request to the source repository
\* or the tracker; when all four are present, it does not exit with 64
StartupUsage ==
    LET missing == \E v \in {"GITHUB_TOKEN", "JIRA_TOKEN", "PEOPLE", "TEAM"} : env[v] = ""
    IN  /\ missing => (exit \in {"init", "exit64"} /\ ~RequestSent)
        /\ exit = "exit64" => missing
        /\ (~missing /\ exit # "init") => exit # "exit64"

\* the roster's team file alone is missing, and the process has exited
StartupUsageWitness ==
    /\ exit = "exit64"
    /\ env["GITHUB_TOKEN"] # "" /\ env["JIRA_TOKEN"] # "" /\ env["PEOPLE"] # ""
    /\ env["TEAM"] = ""

\* ------------------------------------------------------------------ the program, on all these inputs
Init == InitFetch \/ InitFilter \/ InitSearch

Spec == Init /\ [][Next]_vars

====
